---- MODULE Spec2Model ----
(***************************************************************************)
(* Money accounting core of the finance tracker: MoneyEngine,              *)
(* TransactionService, BudgetService, SavingsService and the view that     *)
(* creates profiles, over the ledger store (Profile, Category, Budget,     *)
(* Transaction, Savings rows).  Amounts are whole numbers of the smallest  *)
(* currency unit (DecimalField(12, 2) values scaled by 100).               *)
(***************************************************************************)
EXTENDS Integers, Sequences, FiniteSets, TLC

\* ------------------------------------------------------------------ bounds
MaxAmount == 1
MaxOpening == 2
MaxRows == 2
MaxEngineCalls == 1

Users == {"u1"}
Procs == {"p1", "p2"}
Amounts == 0..MaxAmount
OpeningBalances == 0..MaxOpening

\* An optional value: None is <<>>, a present value v is <<v>>.
None == <<>>
Some(v) == <<v>>
AmountInputs == {Some(a) : a \in Amounts} \cup {None}

TRANSACTION_TYPES == {"income", "expense", "savings"}
BUDGET_TYPE_CHOICES == {"weekly", "monthly"}
Faults == {"none", "insert", "save"}
EngineOps == {"apply_transaction_to_profile", "allocate_budget", "adjust_allocation"}

\* ------------------------------------------------------------------- state
VARIABLES
    users,          \* auth User rows
    money,          \* Profile.money_on_hand by user; DOMAIN money = users with a Profile row
    categories,     \* Category rows, as <<user, category_type>>
    budgets,        \* Budget rows in id order
    transactions,   \* Transaction rows in id order
    savings,        \* Savings rows in id order
    opening,        \* history: the balance each Profile was opened with
    last,           \* history: the last call run to completion, and how it ended
    engineCalls,    \* number of direct MoneyEngine calls made so far
    proc            \* the concurrent requests in flight (SpecConc)

storeVars == <<users, money, categories, budgets, transactions, savings>>
vars == <<users, money, categories, budgets, transactions, savings, opening, last, engineCalls, proc>>

Store ==
    [users |-> users, money |-> money, categories |-> categories,
     budgets |-> budgets, transactions |-> transactions, savings |-> savings]

Rows(s) == Len(s.budgets) + Len(s.transactions) + Len(s.savings)

\* --------------------------------------------------------------- the models
ProfileDefault == 0

NewProfile(s, u) == [s EXCEPT !.money = [x \in DOMAIN s.money \cup {u} |->
                                            IF x = u THEN ProfileDefault ELSE s.money[x]]]

\* a Budget as Budget.objects.create leaves it: end_date not yet set
NewBudget(u, amount, budget_type, start_date) ==
    [user |-> u, amount |-> amount, budget_type |-> budget_type, is_active |-> TRUE,
     start_date |-> start_date, end_date |-> None]

NewTransaction(u, amount, tx_type) ==
    [user |-> u, amount |-> amount, transaction_type |-> tx_type]

NewSavings(u, amount) == [user |-> u, amount |-> amount]

RECURSIVE SumAmounts(_)
\* sum of row.amount over the rows of seq
SumAmounts(seq) ==
    IF seq = <<>> THEN 0 ELSE Head(seq).amount + SumAmounts(Tail(seq))

\* Profile.total_allocated: sum of amount over the user's active budgets
total_allocated(s, u) ==
    LET Keep(b) == b.user = u /\ b.is_active IN SumAmounts(SelectSeq(s.budgets, Keep))

\* Profile.available_to_allocate, on an in-memory Profile whose money_on_hand is mem
available_to_allocate(s, u, mem) == mem - total_allocated(s, u)

\* (x or Decimal('0.00'))
OrZero(x) == IF x = 0 THEN 0 ELSE x

\* ------------------------------------------------------------- MoneyEngine
\* The outcome of running code against a working copy s of the store:
\* the store as written so far, how the run ended, the money_on_hand of the
\* in-memory Profile object, and the code paths that wrote money_on_hand.
Outcome(s, result, mem, wrote) ==
    [store |-> s, result |-> result, mem |-> mem, wrote |-> wrote]

\* an UPDATE of money_on_hand without the row's key: every Profile gets the value
SaveMoney_AllProfiles(s, u, value) == [s EXCEPT !.money = [x \in DOMAIN @ |-> value]]

\* profile.save(update_fields=['money_on_hand'])
SaveMoney(s, u, value) == [s EXCEPT !.money[u] = value]

\* a decorator that commits whatever the run wrote before it raised
atomic_NoRollback(s, out) == out

\* @db_tx.atomic: a run that raised leaves the store as it was on entry
atomic(s, out) == IF out.result = "ok" THEN out ELSE [out EXCEPT !.store = s]

\* savings handled by the income branch
NewBalance_SavingsAdded(m, tx) ==
    IF tx.transaction_type \in {"income", "savings"} THEN OrZero(m) + tx.amount
    ELSE IF tx.transaction_type = "expense" THEN OrZero(m) - tx.amount
    ELSE m

\* a type that is none of the three taken for an expense
NewBalance_UnknownAsExpense(m, tx) ==
    IF tx.transaction_type = "income" THEN OrZero(m) + tx.amount
    ELSE OrZero(m) - tx.amount

\* the money_on_hand apply_transaction_to_profile computes from the balance m
NewBalance(m, tx) ==
    IF tx.transaction_type = "income" THEN OrZero(m) + tx.amount
    ELSE IF tx.transaction_type \in {"expense", "savings"} THEN OrZero(m) - tx.amount
    ELSE m

apply_transaction_to_profile(s, tx) ==
    atomic(s,
        IF tx.user \notin DOMAIN s.money
        THEN Outcome(s, "DoesNotExist", None, {})
        ELSE LET new == NewBalance(s.money[tx.user], tx)
             IN Outcome(SaveMoney(s, tx.user, new), "ok", Some(new),
                        {"apply_transaction_to_profile"}))

\* the request checked against the balance alone, not against what is left to allocate
allocate_budget_BalanceCheck(s, u, mem, amount) ==
    atomic(s,
        IF amount = None THEN Outcome(s, "ValueError: Amount is required", Some(mem), {})
        ELSE IF amount[1] > mem
             THEN Outcome(s, "ValueError: Insufficient", Some(mem), {})
             ELSE LET new == OrZero(mem) - amount[1]
                  IN Outcome(SaveMoney(s, u, new), "ok", Some(new), {"allocate_budget"}))

\* the amount taken from what is left to allocate instead of from money_on_hand
allocate_budget_FromAvailable(s, u, mem, amount) ==
    atomic(s,
        IF amount = None THEN Outcome(s, "ValueError: Amount is required", Some(mem), {})
        ELSE IF amount[1] > available_to_allocate(s, u, mem)
             THEN Outcome(s, "ValueError: Insufficient", Some(mem), {})
             ELSE LET new == available_to_allocate(s, u, mem) - amount[1]
                  IN Outcome(SaveMoney(s, u, new), "ok", Some(new), {"allocate_budget"}))

\* the funds read and compared before the amount is looked at: a missing amount
\* fails in the comparison
allocate_budget_CompareFirst(s, u, mem, amount) ==
    LET available == available_to_allocate(s, u, mem) IN
    atomic(s,
        IF amount = None THEN Outcome(s, "TypeError", Some(mem), {})
        ELSE IF amount[1] > available
             THEN Outcome(s, "ValueError: Insufficient", Some(mem), {})
             ELSE LET new == OrZero(mem) - amount[1]
                  IN Outcome(SaveMoney(s, u, new), "ok", Some(new), {"allocate_budget"}))

\* the amount taken whatever is left to allocate
allocate_budget_Unchecked(s, u, mem, amount) ==
    atomic(s,
        IF amount = None THEN Outcome(s, "ValueError: Amount is required", Some(mem), {})
        ELSE LET new == OrZero(mem) - amount[1]
             IN Outcome(SaveMoney(s, u, new), "ok", Some(new), {"allocate_budget"}))

allocate_budget(s, u, mem, amount) ==
    atomic(s,
        IF amount = None THEN Outcome(s, "ValueError: Amount is required", Some(mem), {})
        ELSE IF amount[1] > available_to_allocate(s, u, mem)
             THEN Outcome(s, "ValueError: Insufficient", Some(mem), {})
             ELSE LET new == OrZero(mem) - amount[1]
                  IN Outcome(SaveMoney(s, u, new), "ok", Some(new), {"allocate_budget"}))

\* an increase checked against the balance alone, not against what is left to allocate
adjust_allocation_BalanceCheck(s, u, mem, old_amount, new_amount) ==
    LET delta == new_amount - old_amount IN
    atomic(s,
        IF delta = 0 THEN Outcome(s, "ok", Some(mem), {})
        ELSE IF delta > 0 /\ delta > mem
             THEN Outcome(s, "ValueError: Insufficient", Some(mem), {})
             ELSE LET new == OrZero(mem) - delta
                  IN Outcome(SaveMoney(s, u, new), "ok", Some(new), {"adjust_allocation"}))

\* a decrease taken from the balance instead of given back
adjust_allocation_RefundSign(s, u, mem, old_amount, new_amount) ==
    LET delta == new_amount - old_amount IN
    atomic(s,
        IF delta = 0 THEN Outcome(s, "ok", Some(mem), {})
        ELSE IF delta > 0
             THEN IF delta > available_to_allocate(s, u, mem)
                  THEN Outcome(s, "ValueError: Insufficient", Some(mem), {})
                  ELSE LET new == OrZero(mem) - delta
                       IN Outcome(SaveMoney(s, u, new), "ok", Some(new), {"adjust_allocation"})
             ELSE LET new == OrZero(mem) + delta
                  IN Outcome(SaveMoney(s, u, new), "ok", Some(new), {"adjust_allocation"}))

\* an increase taken whatever is left to allocate
adjust_allocation_Unchecked(s, u, mem, old_amount, new_amount) ==
    LET delta == new_amount - old_amount IN
    atomic(s,
        IF delta = 0 THEN Outcome(s, "ok", Some(mem), {})
        ELSE LET new == OrZero(mem) - delta
             IN Outcome(SaveMoney(s, u, new), "ok", Some(new), {"adjust_allocation"}))

\* a decrease that gives nothing back
adjust_allocation_NoRefund(s, u, mem, old_amount, new_amount) ==
    LET delta == new_amount - old_amount IN
    atomic(s,
        IF delta = 0 THEN Outcome(s, "ok", Some(mem), {})
        ELSE IF delta > 0
             THEN IF delta > available_to_allocate(s, u, mem)
                  THEN Outcome(s, "ValueError: Insufficient", Some(mem), {})
                  ELSE LET new == OrZero(mem) - delta
                       IN Outcome(SaveMoney(s, u, new), "ok", Some(new), {"adjust_allocation"})
             ELSE Outcome(SaveMoney(s, u, OrZero(mem)), "ok", Some(OrZero(mem)),
                          {"adjust_allocation"}))

adjust_allocation(s, u, mem, old_amount, new_amount) ==
    LET delta == new_amount - old_amount IN
    atomic(s,
        IF delta = 0 THEN Outcome(s, "ok", Some(mem), {})
        ELSE IF delta > 0
             THEN IF delta > available_to_allocate(s, u, mem)
                  THEN Outcome(s, "ValueError: Insufficient", Some(mem), {})
                  ELSE LET new == OrZero(mem) - delta
                       IN Outcome(SaveMoney(s, u, new), "ok", Some(new), {"adjust_allocation"})
             ELSE LET new == OrZero(mem) - delta
                  IN Outcome(SaveMoney(s, u, new), "ok", Some(new), {"adjust_allocation"}))

\* ------------------------------------------------------ TransactionService
\* an expense or savings above the balance refused
create_transaction_FundsChecked(s, u, amount, tx_type) ==
    LET tx == NewTransaction(u, amount, tx_type)
        s1 == [s EXCEPT !.transactions = Append(@, tx)]
    IN atomic(s,
           IF /\ u \in DOMAIN s.money
              /\ tx_type \in {"expense", "savings"}
              /\ amount > s.money[u]
           THEN Outcome(s1, "ValueError: Insufficient", None, {})
           ELSE apply_transaction_to_profile(s1, tx))

create_transaction(s, u, amount, tx_type) ==
    LET tx == NewTransaction(u, amount, tx_type)
        s1 == [s EXCEPT !.transactions = Append(@, tx)]
    IN atomic(s, apply_transaction_to_profile(s1, tx))

\* ---------------------------------------------------------- SavingsService
\* Category.objects.get_or_create(user=user, category_type='savings', ...)
GetOrCreateCategory(s, u, category_type) ==
    [s EXCEPT !.categories = @ \cup {<<u, category_type>>}]

\* the mirroring Transaction recorded as an expense
create_savings_AsExpense(s, u, amount) ==
    LET s1 == [s EXCEPT !.savings = Append(@, NewSavings(u, amount))]
        s2 == GetOrCreateCategory(s1, u, "savings")
    IN atomic(s, create_transaction(s2, u, amount, "expense"))

create_savings(s, u, amount) ==
    LET s1 == [s EXCEPT !.savings = Append(@, NewSavings(u, amount))]
        s2 == GetOrCreateCategory(s1, u, "savings")
    IN atomic(s, create_transaction(s2, u, amount, "savings"))

\* ------------------------------------------------------------------- dates
\* A datetime.date is <<year, month, day>> of the proleptic Gregorian calendar.
is_leap(y) == (y % 4 = 0 /\ y % 100 # 0) \/ y % 400 = 0

days_in_month(y, m) ==
    IF m = 2 THEN (IF is_leap(y) THEN 29 ELSE 28)
    ELSE IF m \in {4, 6, 9, 11} THEN 30 ELSE 31

\* date.replace(day=day)
replace_day(d, day) == <<d[1], d[2], day>>

\* d + timedelta(days=1)
next_day(d) ==
    IF d[3] < days_in_month(d[1], d[2]) THEN <<d[1], d[2], d[3] + 1>>
    ELSE IF d[2] < 12 THEN <<d[1], d[2] + 1, 1>>
    ELSE <<d[1] + 1, 1, 1>>

\* d - timedelta(days=1)
prev_day(d) ==
    IF d[3] > 1 THEN <<d[1], d[2], d[3] - 1>>
    ELSE IF d[2] > 1 THEN <<d[1], d[2] - 1, days_in_month(d[1], d[2] - 1)>>
    ELSE <<d[1] - 1, 12, 31>>

RECURSIVE add_days(_, _)
\* d + timedelta(days=n)
add_days(d, n) ==
    IF n = 0 THEN d
    ELSE IF n > 0 THEN add_days(next_day(d), n - 1)
    ELSE add_days(prev_day(d), n + 1)

\* the dates the views pass: the week_start posted (any day) or the Monday of the
\* current week, and date(year, month, 1) of the month posted
Years == {2023, 2024}
MonthStarts == {<<y, m, 1>> : y \in Years, m \in 1..12}
WeekStarts == {<<2023, 2, 20>>, <<2024, 2, 26>>, <<2023, 12, 28>>}
ThisWeek == <<2024, 2, 26>>
ThisMonth == <<2024, 2, 1>>

\* ----------------------------------------------------------- BudgetService
\* a week of eight days
weekly_end_date_SevenDays(start_date) == add_days(start_date, 7)

\* start_date + timedelta(days=6)
weekly_end_date(start_date) == add_days(start_date, 6)

\* three days added to the 28th
monthly_end_date_ThreeDays(month_start) ==
    LET next_month == replace_day(add_days(replace_day(month_start, 28), 3), 1)
    IN add_days(next_month, -1)

\* next_month = (month_start.replace(day=28) + timedelta(days=4)).replace(day=1);
\* next_month - timedelta(days=1)
monthly_end_date(month_start) ==
    LET next_month == replace_day(add_days(replace_day(month_start, 28), 4), 1)
    IN add_days(next_month, -1)

\* fault: the step of the call at which the store raises ("none": no fault)
CreateBudget(s, u, amount, budget_type, start_date, end_date, fault) ==
    IF u \notin DOMAIN s.money
    THEN Outcome(s, "DoesNotExist", None, {})
    ELSE LET a == allocate_budget(s, u, s.money[u], amount) IN
         IF a.result # "ok" THEN a
         ELSE IF fault = "insert" THEN [a EXCEPT !.result = "DatabaseError"]
         ELSE LET b == NewBudget(u, amount[1], budget_type, start_date)
                  s2 == [a.store EXCEPT !.budgets = Append(@, b)]
                  s3 == [a.store EXCEPT
                            !.budgets = Append(@, [b EXCEPT !.end_date = Some(end_date)])]
              IN IF fault = "save"
                 THEN [a EXCEPT !.store = s2, !.result = "DatabaseError"]
                 ELSE [a EXCEPT !.store = s3]

create_weekly_budget(s, u, amount, start_date, fault) ==
    atomic(s, CreateBudget(s, u, amount, "weekly", start_date,
                           weekly_end_date(start_date), fault))

create_monthly_budget(s, u, amount, month_start, fault) ==
    atomic(s, CreateBudget(s, u, amount, "monthly", month_start,
                           monthly_end_date(month_start), fault))

\* budget: the in-memory Budget instance of row i the caller passes
update_budget(s, i, budget, new_amount, fault) ==
    atomic(s,
        IF budget.user \notin DOMAIN s.money
        THEN Outcome(s, "DoesNotExist", None, {})
        ELSE LET a == adjust_allocation(s, budget.user, s.money[budget.user],
                                        budget.amount, new_amount) IN
             IF a.result # "ok" THEN a
             ELSE IF fault = "save" THEN [a EXCEPT !.result = "DatabaseError"]
             ELSE [a EXCEPT !.store.budgets[i] = [budget EXCEPT !.amount = new_amount]])

\* the reserved amount given back to money_on_hand on closing
close_budget_Refund(s, i, budget, fault) ==
    atomic(s,
        IF fault = "save" THEN Outcome(s, "DatabaseError", None, {})
        ELSE Outcome([s EXCEPT !.budgets[i].is_active = FALSE,
                               !.money[budget.user] = @ + budget.amount],
                     "ok", None, {"close_budget"}))

close_budget(s, i, budget, fault) ==
    atomic(s,
        IF fault = "save" THEN Outcome(s, "DatabaseError", None, {})
        ELSE Outcome([s EXCEPT !.budgets[i].is_active = FALSE], "ok", None, {}))

\* ------------------------------------------------------------------- views
\* Profile.objects.get_or_create(user=user)
GetOrCreateProfile(s, u) == IF u \in DOMAIN s.money THEN s ELSE NewProfile(s, u)

\* register: a new User, its Profile, and the form's optional money_on_hand
register(s, u, form_money) ==
    LET s1 == [s EXCEPT !.users = @ \cup {u}]
        s2 == GetOrCreateProfile(s1, u)
    IN IF form_money # None /\ form_money[1] # 0
       THEN Outcome(SaveMoney(s2, u, form_money[1]), "ok", Some(form_money[1]), {"register"})
       ELSE Outcome(s2, "ok", Some(s2.money[u]), {})

\* dashboard: read-only but for the Profile it creates when there is none
dashboard(s, u) ==
    LET s1 == GetOrCreateProfile(s, u) IN Outcome(s1, "ok", Some(s1.money[u]), {})

\* ----------------------------------------------------------------- actions
\* op(user, amount) as called: kind is the tx_type or the injected fault, budget
\* the Budget row passed (0: none), old its amount (or old_amount) at the call,
\* date the start_date or month_start passed (None: the call takes none); for an
\* update_budget, before is the stored money_on_hand at the call and undoes, when the
\* call sets the Budget back to the amount the successful update_budget just before
\* it changed it from, the stored money_on_hand before that earlier call
Call(op, u, amount, kind, budget, old, out) ==
    [op |-> op, user |-> u, amount |-> amount, kind |-> kind, budget |-> budget, old |-> old,
     result |-> out.result, wrote |-> out.wrote, mem |-> out.mem, date |-> None,
     before |-> None, undoes |-> None]

NoCall == [op |-> "none", user |-> "none", amount |-> None, kind |-> "none", budget |-> 0,
           old |-> 0,
           result |-> "none", wrote |-> {}, mem |-> None, date |-> None,
           before |-> None, undoes |-> None]

\* the store becomes what the call committed
Commit(out) ==
    /\ users' = out.store.users
    /\ money' = out.store.money
    /\ categories' = out.store.categories
    /\ budgets' = out.store.budgets
    /\ transactions' = out.store.transactions
    /\ savings' = out.store.savings

\* a request no one has made yet
IdleRequest ==
    [pc |-> "idle", op |-> "none", user |-> "none", amount |-> None, kind |-> "none",
     mem |-> 0, newMoney |-> 0, result |-> "none"]

Opened(u) == opening' = [opening EXCEPT ![u] = money'[u]]

Init ==
    /\ users \in SUBSET Users
    /\ money = [u \in {} |-> 0]
    /\ categories = {}
    /\ budgets = <<>>
    /\ transactions = <<>>
    /\ savings = <<>>
    /\ opening = [u \in Users |-> 0]
    /\ last = NoCall
    /\ engineCalls = 0
    /\ proc = [p \in Procs |-> IdleRequest]

Register(u, form_money) ==
    /\ u \notin users
    /\ LET out == register(Store, u, form_money) IN
         /\ Commit(out)
         /\ last' = Call("register", u, form_money, "none", 0, 0, out)
    /\ Opened(u)
    /\ UNCHANGED <<engineCalls, proc>>

Dashboard(u) ==
    /\ u \in users
    /\ u \notin DOMAIN money
    /\ LET out == dashboard(Store, u) IN
         /\ Commit(out)
         /\ last' = Call("dashboard", u, None, "none", 0, 0, out)
    /\ Opened(u)
    /\ UNCHANGED <<engineCalls, proc>>

CreateTransaction(u, amount, tx_type) ==
    /\ u \in users
    /\ Rows(Store) < MaxRows
    /\ LET out == create_transaction(Store, u, amount, tx_type) IN
         /\ Commit(out)
         /\ last' = Call("create_transaction", u, Some(amount), tx_type, 0, 0, out)
    /\ UNCHANGED <<opening, engineCalls, proc>>

CreateSavings(u, amount) ==
    /\ u \in users
    /\ Rows(Store) + 1 < MaxRows
    /\ LET out == create_savings(Store, u, amount) IN
         /\ Commit(out)
         /\ last' = Call("create_savings", u, Some(amount), "none", 0, 0, out)
    /\ UNCHANGED <<opening, engineCalls, proc>>

CreateWeeklyBudget(u, amount, start_date, fault) ==
    /\ u \in users
    /\ Rows(Store) < MaxRows
    /\ LET out == create_weekly_budget(Store, u, amount, start_date, fault) IN
         /\ Commit(out)
         /\ last' = [Call("create_weekly_budget", u, amount, fault, 0, 0, out)
                        EXCEPT !.date = Some(start_date)]
    /\ UNCHANGED <<opening, engineCalls, proc>>

CreateMonthlyBudget(u, amount, month_start, fault) ==
    /\ u \in users
    /\ Rows(Store) < MaxRows
    /\ LET out == create_monthly_budget(Store, u, amount, month_start, fault) IN
         /\ Commit(out)
         /\ last' = [Call("create_monthly_budget", u, amount, fault, 0, 0, out)
                        EXCEPT !.date = Some(month_start)]
    /\ UNCHANGED <<opening, engineCalls, proc>>

UpdateBudget(i, new_amount, fault) ==
    /\ i \in DOMAIN budgets
    /\ LET out == update_budget(Store, i, budgets[i], new_amount, fault) IN
         /\ Commit(out)
         /\ last' = [Call("update_budget", budgets[i].user, Some(new_amount), fault,
                          i, budgets[i].amount, out)
                        EXCEPT !.before = IF budgets[i].user \in DOMAIN money
                                          THEN Some(money[budgets[i].user]) ELSE None,
                               !.undoes = IF /\ last.op = "update_budget"
                                             /\ last.result = "ok"
                                             /\ last.budget = i
                                             /\ last.old = new_amount
                                          THEN last.before ELSE None]
    /\ UNCHANGED <<opening, engineCalls, proc>>

CloseBudget(i, fault) ==
    /\ i \in DOMAIN budgets
    /\ LET out == close_budget(Store, i, budgets[i], fault) IN
         /\ Commit(out)
         /\ last' = Call("close_budget", budgets[i].user, None, fault, i,
                         budgets[i].amount, out)
    /\ UNCHANGED <<opening, engineCalls, proc>>

Next ==
    \/ \E u \in Users, m \in {Some(a) : a \in OpeningBalances} \cup {None} : Register(u, m)
    \/ \E u \in Users : Dashboard(u)
    \/ \E u \in Users, a \in Amounts, ty \in TRANSACTION_TYPES : CreateTransaction(u, a, ty)
    \/ \E u \in Users, a \in Amounts : CreateSavings(u, a)
    \/ \E u \in Users, a \in AmountInputs, f \in Faults : CreateWeeklyBudget(u, a, ThisWeek, f)
    \/ \E u \in Users, a \in AmountInputs, f \in Faults : CreateMonthlyBudget(u, a, ThisMonth, f)
    \/ \E i \in DOMAIN budgets, a \in Amounts, f \in {"none", "save"} : UpdateBudget(i, a, f)
    \/ \E i \in DOMAIN budgets, f \in {"none", "save"} : CloseBudget(i, f)

Spec == Init /\ [][Next]_vars

\* ------------------------------------------- MoneyEngine called on its own
\* MoneyEngine.allocate_budget(profile, amount) on a Profile just loaded
AllocateBudget(u, amount) ==
    /\ u \in DOMAIN money
    /\ engineCalls < MaxEngineCalls
    /\ LET out == allocate_budget(Store, u, money[u], amount) IN
         /\ Commit(out)
         /\ last' = Call("allocate_budget", u, amount, "none", 0, 0, out)
    /\ engineCalls' = engineCalls + 1
    /\ UNCHANGED <<opening, proc>>

\* MoneyEngine.adjust_allocation(profile, old_amount, new_amount) on a Profile just loaded
AdjustAllocation(u, old_amount, new_amount) ==
    /\ u \in DOMAIN money
    /\ engineCalls < MaxEngineCalls
    /\ LET out == adjust_allocation(Store, u, money[u], old_amount, new_amount) IN
         /\ Commit(out)
         /\ last' = Call("adjust_allocation", u, Some(new_amount), "none", 0, old_amount, out)
    /\ engineCalls' = engineCalls + 1
    /\ UNCHANGED <<opening, proc>>

NextEngine ==
    \/ \E u \in Users, m \in {Some(a) : a \in OpeningBalances} \cup {None} : Register(u, m)
    \/ \E u \in Users, a \in Amounts, ty \in TRANSACTION_TYPES : CreateTransaction(u, a, ty)
    \/ \E u \in Users, a \in AmountInputs : CreateWeeklyBudget(u, a, ThisWeek, "none")
    \/ \E u \in Users, a \in AmountInputs : CreateMonthlyBudget(u, a, ThisMonth, "none")
    \/ \E i \in DOMAIN budgets, a \in Amounts : UpdateBudget(i, a, "none")
    \/ \E u \in Users, a \in AmountInputs : AllocateBudget(u, a)
    \/ \E u \in Users, old \in Amounts, new \in Amounts : AdjustAllocation(u, old, new)

SpecEngine == Init /\ [][NextEngine]_vars

\* ------------------------------------- savings recorded through the service
\* Savings are put aside only by SavingsService.create_savings (the add_savings
\* view); transactions entered directly are income and expenses.
NextSavings ==
    \/ \E u \in Users, m \in {Some(a) : a \in OpeningBalances} \cup {None} : Register(u, m)
    \/ \E u \in Users : Dashboard(u)
    \/ \E u \in Users, a \in Amounts, ty \in {"income", "expense"} : CreateTransaction(u, a, ty)
    \/ \E u \in Users, a \in Amounts : CreateSavings(u, a)
    \/ \E u \in Users, a \in AmountInputs : CreateWeeklyBudget(u, a, ThisWeek, "none")
    \/ \E i \in DOMAIN budgets : CloseBudget(i, "none")

SpecSavings == Init /\ [][NextSavings]_vars

\* ------------------------------------------------- weekly budgets by start
\* add_weekly_budget with the week_start the request posts, between top-ups,
\* expenses and budget closures
NextWeekly ==
    \/ \E u \in Users, m \in {Some(a) : a \in OpeningBalances} \cup {None} : Register(u, m)
    \/ \E u \in Users, a \in Amounts, ty \in {"income", "expense"} : CreateTransaction(u, a, ty)
    \/ \E u \in Users, a \in AmountInputs, d \in WeekStarts : CreateWeeklyBudget(u, a, d, "none")
    \/ \E i \in DOMAIN budgets : CloseBudget(i, "none")

SpecWeekly == Init /\ [][NextWeekly]_vars

\* ------------------------------------------------ monthly budgets by month
\* add_monthly_budget with the month and year the request posts, for budgets of a
\* positive amount (or none)
NextMonthEnd ==
    \/ \E u \in Users, m \in {Some(a) : a \in OpeningBalances} \cup {None} : Register(u, m)
    \/ \E u \in Users, a \in AmountInputs \ {Some(0)}, d \in MonthStarts :
          CreateMonthlyBudget(u, a, d, "none")

SpecMonthEnd == Init /\ [][NextMonthEnd]_vars

\* ------------------------------------------- transactions of any tx_type
\* create_transaction takes tx_type as given: the three TRANSACTION_TYPES or some
\* other string.  MoneyEngine.apply_transaction_to_profile is also called on its
\* own on a saved Transaction.
TxTypeInputs == TRANSACTION_TYPES \cup {"transfer"}

ApplyTransactionToProfile(i) ==
    /\ i \in DOMAIN transactions
    /\ engineCalls < MaxEngineCalls
    /\ LET tx == transactions[i]
           out == apply_transaction_to_profile(Store, tx)
       IN /\ Commit(out)
          /\ last' = Call("apply_transaction_to_profile", tx.user, Some(tx.amount),
                          tx.transaction_type, 0, 0, out)
    /\ engineCalls' = engineCalls + 1
    /\ UNCHANGED <<opening, proc>>

NextTx ==
    \/ \E u \in Users, m \in {Some(a) : a \in OpeningBalances} \cup {None} : Register(u, m)
    \/ \E u \in Users : Dashboard(u)
    \/ \E u \in Users, a \in Amounts, ty \in TxTypeInputs : CreateTransaction(u, a, ty)
    \/ \E i \in DOMAIN transactions : ApplyTransactionToProfile(i)

SpecTx == Init /\ [][NextTx]_vars

\* ------------------------------------------------------------- two users
\* Two users, each calling the services for its own account, one call at a time;
\* both register with the largest opening balance.
BothUsers == {"u1", "u2"}

InitUsers ==
    /\ users = {}
    /\ money = [u \in {} |-> 0]
    /\ categories = {}
    /\ budgets = <<>>
    /\ transactions = <<>>
    /\ savings = <<>>
    /\ opening = [u \in BothUsers |-> 0]
    /\ last = NoCall
    /\ engineCalls = 0
    /\ proc = [p \in Procs |-> IdleRequest]

NextUsers ==
    \/ \E u \in BothUsers : Register(u, Some(MaxOpening))
    \/ \E u \in BothUsers, a \in Amounts, ty \in TRANSACTION_TYPES : CreateTransaction(u, a, ty)
    \/ \E u \in BothUsers, a \in Amounts : CreateSavings(u, a)
    \/ \E u \in BothUsers, a \in AmountInputs : CreateWeeklyBudget(u, a, ThisWeek, "none")
    \/ \E u \in BothUsers, a \in AmountInputs : CreateMonthlyBudget(u, a, ThisMonth, "none")
    \/ \E i \in DOMAIN budgets, a \in Amounts : UpdateBudget(i, a, "none")
    \/ \E i \in DOMAIN budgets : CloseBudget(i, "none")

SpecUsers == InitUsers /\ [][NextUsers]_vars

\* ------------------------------------------------------ budget operations
\* A registered user with its opening balance on hand and nothing reserved, who
\* from there only creates and updates Budgets.
InitBudgets ==
    /\ users = Users
    /\ money \in [Users -> OpeningBalances]
    /\ opening = money
    /\ categories = {}
    /\ budgets = <<>>
    /\ transactions = <<>>
    /\ savings = <<>>
    /\ last = NoCall
    /\ engineCalls = 0
    /\ proc = [p \in Procs |-> IdleRequest]

NextBudgets ==
    \/ \E u \in Users, a \in AmountInputs, f \in Faults : CreateWeeklyBudget(u, a, ThisWeek, f)
    \/ \E u \in Users, a \in AmountInputs, f \in Faults : CreateMonthlyBudget(u, a, ThisMonth, f)
    \/ \E i \in DOMAIN budgets, a \in Amounts, f \in {"none", "save"} : UpdateBudget(i, a, f)

SpecBudgets == InitBudgets /\ [][NextBudgets]_vars

\* ------------------------------------------------------ concurrent requests
\* Two requests run their service call at the same time against the store, each in
\* its own database transaction (db_tx.atomic) at READ COMMITTED: a SELECT sees what
\* is committed when it runs, an UPDATE of the Profile row waits for the row lock
\* and holds it to the commit, and the rows a request wrote are seen by the other
\* only once it has committed.  No SELECT of the code takes a lock.
InFlight == Cardinality({p \in Procs : proc[p].pc \notin {"idle", "done"}})

\* the Profile row of u is locked by a request that has written it and not committed
Locked(u) == \E q \in Procs : proc[q].pc = "written" /\ proc[q].user = u

Finished(p, result) == proc' = [proc EXCEPT ![p].pc = "done", ![p].result = result]

InitConc ==
    /\ users = Users
    /\ money \in [Users -> OpeningBalances]
    /\ opening = money
    /\ categories = {}
    /\ budgets = <<>>
    /\ transactions = <<>>
    /\ savings = <<>>
    /\ last = NoCall
    /\ engineCalls = 0
    /\ proc = [p \in Procs |-> IdleRequest]

\* the service method is entered: create_transaction inserts its Transaction row,
\* which stays private to the request until it commits
Start(p, op, u, amount, kind) ==
    /\ proc[p].pc = "idle"
    /\ Rows(Store) + InFlight < MaxRows
    /\ proc' = [proc EXCEPT ![p] = [IdleRequest EXCEPT !.pc = "started", !.op = op,
                                       !.user = u, !.amount = amount, !.kind = kind]]
    /\ UNCHANGED <<storeVars, opening, last, engineCalls>>

\* user.profile / tx.user.profile: the SELECT of the Profile row.  create_transaction
\* goes on to compute the new balance from it (apply_transaction_to_profile).
ReadProfile(p) ==
    LET r == proc[p] IN
    /\ r.pc = "started"
    /\ IF r.user \notin DOMAIN money
       THEN Finished(p, "DoesNotExist")
       ELSE IF r.op = "create_transaction"
            THEN LET tx == NewTransaction(r.user, r.amount[1], r.kind)
                     out == apply_transaction_to_profile(
                                [Store EXCEPT !.transactions = Append(@, tx)], tx)
                 IN proc' = [proc EXCEPT ![p].pc = "checked", ![p].mem = money[r.user],
                                         ![p].newMoney = out.mem[1]]
            ELSE proc' = [proc EXCEPT ![p].pc = "read", ![p].mem = money[r.user]]
    /\ UNCHANGED <<storeVars, opening, last, engineCalls>>

\* allocate_budget up to its write: profile.available_to_allocate sums the active
\* budgets committed now and sets them against the balance read before
CheckAvailable(p) ==
    LET r == proc[p]
        out == allocate_budget(Store, r.user, r.mem, r.amount)
    IN
    /\ r.pc = "read"
    /\ IF out.result # "ok"
       THEN Finished(p, out.result)
       ELSE proc' = [proc EXCEPT ![p].pc = "checked", ![p].newMoney = out.mem[1]]
    /\ UNCHANGED <<storeVars, opening, last, engineCalls>>

\* profile.save(update_fields=['money_on_hand']): the UPDATE takes the row lock
WriteProfile(p) ==
    /\ proc[p].pc = "checked"
    /\ ~Locked(proc[p].user)
    /\ proc' = [proc EXCEPT ![p].pc = "written"]
    /\ UNCHANGED <<storeVars, opening, last, engineCalls>>

\* the rest of the call (the Budget insert and end_date save) and the commit: the
\* balance written and the rows inserted become the store's
CommitRequest(p) ==
    LET r == proc[p] IN
    /\ r.pc = "written"
    /\ money' = [money EXCEPT ![r.user] = r.newMoney]
    /\ IF r.op = "create_transaction"
       THEN /\ transactions' = Append(transactions,
                                      NewTransaction(r.user, r.amount[1], r.kind))
            /\ UNCHANGED budgets
       ELSE /\ budgets' = Append(budgets,
                           IF r.kind = "weekly"
                           THEN [NewBudget(r.user, r.amount[1], r.kind, ThisWeek)
                                    EXCEPT !.end_date = Some(weekly_end_date(ThisWeek))]
                           ELSE [NewBudget(r.user, r.amount[1], r.kind, ThisMonth)
                                    EXCEPT !.end_date = Some(monthly_end_date(ThisMonth))])
            /\ UNCHANGED transactions
    /\ Finished(p, "ok")
    /\ UNCHANGED <<users, categories, savings, opening, last, engineCalls>>

NextConc ==
    \/ \E p \in Procs, u \in Users, a \in Amounts, ty \in TRANSACTION_TYPES :
          Start(p, "create_transaction", u, Some(a), ty)
    \/ \E p \in Procs, u \in Users, a \in AmountInputs :
          \/ Start(p, "create_weekly_budget", u, a, "weekly")
          \/ Start(p, "create_monthly_budget", u, a, "monthly")
    \/ \E p \in Procs : ReadProfile(p)
    \/ \E p \in Procs : CheckAvailable(p)
    \/ \E p \in Procs : WriteProfile(p)
    \/ \E p \in Procs : CommitRequest(p)

SpecConc == InitConc /\ [][NextConc]_vars

\* ------------------------------------------------------------------ claims
\* sum of the amounts of u's persisted transactions of type ty
TxSum(u, ty) ==
    LET Keep(tx) == tx.user = u /\ tx.transaction_type = ty
    IN SumAmounts(SelectSeq(transactions, Keep))

\* what the persisted transactions of u add to its balance
TxNet(u) == TxSum(u, "income") - TxSum(u, "expense") - TxSum(u, "savings")

UserRows(seq, u) == LET Keep(r) == r.user = u IN SelectSeq(seq, Keep)

\* the orders in which n calls can be made
Orders(n) == {f \in [1..n -> 1..n] : \A i, j \in 1..n : f[i] = f[j] => i = j}

RECURSIVE Replay(_, _, _, _)
\* the balance after applying txs[order[k]], txs[order[k+1]], ... to the balance m
Replay(m, txs, order, k) ==
    IF k > Len(txs) THEN m ELSE Replay(NewBalance(m, txs[order[k]]), txs, order, k + 1)

\* C1: when only transactions have been created for a user (no Budget row), its
\* money_on_hand is the opening balance plus income minus expense minus savings
\* amounts, and applying the same transactions in any other order gives that balance.
C1_Conservation ==
    \A u \in DOMAIN money :
        UserRows(budgets, u) = <<>> =>
            /\ money[u] = opening[u] + TxNet(u)
            /\ \A order \in Orders(Len(UserRows(transactions, u))) :
                   Replay(opening[u], UserRows(transactions, u), order, 1) = money[u]

C1_Witness ==
    /\ budgets = <<>>
    /\ Len(transactions) >= 2
    /\ transactions[1].transaction_type # transactions[2].transaction_type
    /\ transactions[1].amount > 0
    /\ transactions[2].amount > 0

IsCreateBudget(c) == c.op \in {"create_weekly_budget", "create_monthly_budget"}

\* C2: two concurrent budget allocations against one profile never both pass the
\* check on the same stale balance: when both have committed, money_on_hand is the
\* balance they started from less both amounts.
C2_NoStaleAllocation ==
    \A p, q \in Procs :
        (/\ p # q
         /\ IsCreateBudget(proc[p]) /\ proc[p].pc = "done" /\ proc[p].result = "ok"
         /\ IsCreateBudget(proc[q]) /\ proc[q].pc = "done" /\ proc[q].result = "ok"
         /\ proc[p].user = proc[q].user)
        => money[proc[p].user]
             = opening[proc[p].user] - proc[p].amount[1] - proc[q].amount[1]

\* C3: in every committed state each persisted Transaction has had its effect applied
\* to its owner's money_on_hand exactly once, under any interleaving of concurrent
\* create_transaction calls (stated for users that hold no Budget row).
C3_ExactlyOnce ==
    \A u \in DOMAIN money :
        UserRows(budgets, u) = <<>> => money[u] = opening[u] + TxNet(u)

\* C4: whenever allocate_budget is called (on its own or by a budget creation) with an
\* amount above available_to_allocate, it fails with the insufficient-funds error and
\* the stored money_on_hand is what it was before the call.
C4_AllocationRejected ==
    [][((last'.op = "allocate_budget" \/ IsCreateBudget(last'))
          /\ last'.user \in DOMAIN money
          /\ last'.amount # None
          /\ last'.amount[1] > available_to_allocate(Store, last'.user, money[last'.user]))
         => (last'.result = "ValueError: Insufficient" /\ money' = money)]_vars

C4_Witness ==
    /\ last.op = "allocate_budget"
    /\ last.result = "ValueError: Insufficient"
    /\ last.amount # None
    /\ money[last.user] >= last.amount[1]

\* C5: allocate_budget called with a present amount that is at most
\* available_to_allocate succeeds and takes exactly the amount from money_on_hand; and
\* once a budget creation has recorded the new active budget, available_to_allocate
\* is the new money_on_hand minus the old total of active budgets plus the amount.
C5_AllocationSuccess ==
    [][/\ (last'.op = "allocate_budget"
            /\ last'.amount # None
            /\ last'.amount[1] <= available_to_allocate(Store, last'.user, money[last'.user]))
           => /\ last'.result = "ok"
              /\ money' = [money EXCEPT ![last'.user] = @ - last'.amount[1]]
       /\ (IsCreateBudget(last') /\ last'.result = "ok")
           => /\ money' = [money EXCEPT ![last'.user] = @ - last'.amount[1]]
              /\ total_allocated(Store', last'.user)
                    = total_allocated(Store, last'.user) + last'.amount[1]
              /\ available_to_allocate(Store', last'.user, money'[last'.user])
                    = (money[last'.user] - last'.amount[1])
                        - (total_allocated(Store, last'.user) + last'.amount[1])]_vars

C5_Witness ==
    /\ IsCreateBudget(last)
    /\ last.result = "ok"
    /\ last.amount = Some(1)
    /\ available_to_allocate(Store, last.user, money[last.user]) > 0

\* C6: a create_weekly_budget or create_monthly_budget call that fails at any step
\* (rejected allocation, failed Budget insert, failed end_date save) leaves
\* money_on_hand and the Budget rows as they were before the call.
C6_BudgetCreationAtomic ==
    [][(IsCreateBudget(last') /\ last'.result # "ok")
         => (money' = money /\ budgets' = budgets)]_vars

C6_Witness ==
    /\ IsCreateBudget(last)
    /\ last.kind = "save"
    /\ last.result = "DatabaseError"
    /\ last.amount = Some(1)
    /\ last.wrote = {"allocate_budget"}

\* the stored money_on_hand of u, a missing Profile row counting as the column default
StoredMoney(f, u) == IF u \in DOMAIN f THEN f[u] ELSE ProfileDefault

\* C7: every step that changes a stored money_on_hand is a write by MoneyEngine
\* (apply_transaction_to_profile, allocate_budget, adjust_allocation) and by nothing else.
C7_SoleWriter ==
    [][\A u \in Users :
          StoredMoney(money', u) # StoredMoney(money, u)
              => (last'.wrote # {} /\ last'.wrote \subseteq EngineOps)]_vars

\* C8: in every committed state money_on_hand is the opening balance plus income minus
\* expense minus savings transaction amounts minus the amounts of the active budgets.
C8_GlobalLedger ==
    \A u \in DOMAIN money :
        money[u] = opening[u] + TxNet(u) - total_allocated(Store, u)

\* C9: adjust_allocation with new < old adds exactly old - new to money_on_hand and
\* does not fail, whatever is left to allocate; with new = old it writes nothing and
\* money_on_hand stays as it was.
C9_AdjustRefundAndNoop ==
    [][(last'.op = "adjust_allocation" \/ (last'.op = "update_budget" /\ last'.kind = "none"))
        => /\ last'.amount[1] < last'.old
               => /\ last'.result = "ok"
                  /\ money' = [money EXCEPT ![last'.user] = @ + (last'.old - last'.amount[1])]
           /\ last'.amount[1] = last'.old
               => /\ last'.result = "ok"
                  /\ last'.wrote = {}
                  /\ money' = money]_vars

C9_Witness ==
    /\ last.op = "adjust_allocation"
    /\ last.amount[1] < last.old
    /\ last.result = "ok"
    /\ available_to_allocate(Store, last.user, money[last.user]) < 0

\* C10: an update_budget that raises the amount by more than available_to_allocate
\* fails with insufficient funds and leaves money_on_hand and the Budget rows as they
\* were; an accepted increase takes exactly the delta from money_on_hand and stores
\* the new amount on the Budget row in the same step.
C10_UpdateBudgetIncrease ==
    [][(last'.op = "update_budget" /\ last'.amount[1] > last'.old) =>
         LET u == last'.user
             delta == last'.amount[1] - last'.old
         IN /\ u \in DOMAIN money /\ delta > available_to_allocate(Store, u, money[u])
                  => /\ last'.result = "ValueError: Insufficient"
                     /\ money' = money
                     /\ budgets' = budgets
            /\ last'.result = "ok"
                  => /\ money'[u] = money[u] - delta
                     /\ budgets'[last'.budget].amount = last'.amount[1]
                     /\ budgets[last'.budget].amount = last'.old
            /\ last'.result # "ok" => (money' = money /\ budgets' = budgets)]_vars

C10_Witness ==
    /\ last.op = "update_budget"
    /\ last.amount[1] > last.old
    /\ last.result = "ValueError: Insufficient"
    /\ last.user \in DOMAIN money
    /\ money[last.user] > 0

\* C11: a create_savings that succeeds adds one Savings row and one 'savings'
\* Transaction of the same amount and takes the amount from money_on_hand; one that
\* fails leaves rows and balance as they were; and while savings are recorded only
\* through create_savings, Savings rows and 'savings' Transactions are equal in number.
C11_SavingsMirroring ==
    /\ [](\A u \in Users :
            Len(UserRows(savings, u)) =
                Len(SelectSeq(UserRows(transactions, u),
                              LAMBDA tx : tx.transaction_type = "savings")))
    /\ [][last'.op = "create_savings" =>
            IF last'.result = "ok"
            THEN /\ savings' = Append(savings, NewSavings(last'.user, last'.amount[1]))
                 /\ transactions' = Append(transactions,
                        NewTransaction(last'.user, last'.amount[1], "savings"))
                 /\ money' = [money EXCEPT ![last'.user] = @ - last'.amount[1]]
                 /\ budgets' = budgets
            ELSE /\ savings' = savings
                 /\ transactions' = transactions
                 /\ money' = money
                 /\ categories' = categories]_vars

\* a savings of 1 has been put aside and mirrored
C11_Witness ==
    /\ last.op = "create_savings"
    /\ last.result = "ok"
    /\ last.amount = Some(1)
    /\ Len(savings) = 1
    /\ \E i \in DOMAIN transactions : transactions[i].transaction_type = "savings"

\* a create_savings for a user without a Profile has been rolled back
C11_WitnessFailed ==
    /\ last.op = "create_savings"
    /\ last.result = "DoesNotExist"

\* C12: a create_weekly_budget called with an amount that is at most
\* available_to_allocate succeeds, adds one active Budget of type 'weekly' with that
\* amount, the start_date given and end_date six days after it, and takes the amount
\* from money_on_hand.
C12_WeeklyBudgetCreated ==
    [][(/\ last'.op = "create_weekly_budget"
        /\ last'.user \in DOMAIN money
        /\ last'.amount # None
        /\ last'.amount[1] <= available_to_allocate(Store, last'.user, money[last'.user]))
         => /\ last'.result = "ok"
            /\ budgets' = Append(budgets,
                   [user |-> last'.user, amount |-> last'.amount[1],
                    budget_type |-> "weekly", is_active |-> TRUE,
                    start_date |-> last'.date[1],
                    end_date |-> Some(add_days(last'.date[1], 6))])
            /\ money' = [money EXCEPT ![last'.user] = @ - last'.amount[1]]]_vars

\* a week that starts on 2024-02-26 and ends on 2024-03-03 has been budgeted
C12_Witness ==
    /\ last.op = "create_weekly_budget"
    /\ last.result = "ok"
    /\ last.amount = Some(1)
    /\ last.date = Some(<<2024, 2, 26>>)
    /\ budgets # <<>>
    /\ budgets[Len(budgets)].end_date = Some(<<2024, 3, 3>>)


\* C13: the end_date create_monthly_budget stores for a month_start that is the first
\* day of a month is the last calendar day of that month, in each of the twelve
\* months of leap and non-leap years: 2024-02-01 gives 2024-02-29 and 2023-02-01
\* gives 2023-02-28.
C13_MonthlyEndDate ==
    \A i \in DOMAIN budgets :
        LET b == budgets[i]
            y == b.start_date[1]
            m == b.start_date[2]
        IN (b.budget_type = "monthly" /\ b.start_date[3] = 1) =>
              /\ b.end_date = Some(<<y, m, days_in_month(y, m)>>)
              /\ next_day(b.end_date[1])[3] = 1
              /\ b.start_date = <<2024, 2, 1>> => b.end_date = Some(<<2024, 2, 29>>)
              /\ b.start_date = <<2023, 2, 1>> => b.end_date = Some(<<2023, 2, 28>>)

\* the budget of February 2024 has been created and ends on the 29th
C13_Witness ==
    /\ last.op = "create_monthly_budget"
    /\ last.result = "ok"
    /\ last.date = Some(<<2024, 2, 1>>)
    /\ budgets # <<>>
    /\ budgets[Len(budgets)].start_date = <<2024, 2, 1>>
    /\ budgets[Len(budgets)].end_date = Some(<<2024, 2, 29>>)

C15_UnknownTypeIgnored ==
    [][(/\ last'.op \in {"apply_transaction_to_profile", "create_transaction"}
        /\ last'.kind \notin TRANSACTION_TYPES
        /\ last'.user \in DOMAIN money)
         => /\ last'.result = "ok"
            /\ money' = money]_vars

\* a saved 'transfer' of 1 has been applied and the balance is the one opened with
C15_Witness ==
    /\ last.op = "apply_transaction_to_profile"
    /\ last.kind = "transfer"
    /\ last.amount = Some(1)
    /\ last.result = "ok"
    /\ \A i \in DOMAIN transactions : transactions[i].transaction_type = "transfer"
    /\ money[last.user] = opening[last.user]

\* C16: allocate_budget with no amount, called on its own or by create_weekly_budget
\* or create_monthly_budget, fails with the 'Amount is required' validation error,
\* ahead of the comparison with the available funds, and writes nothing:
\* money_on_hand is unchanged and no Budget row is created.
C16_MissingAmount ==
    [][(/\ last'.op = "allocate_budget" \/ IsCreateBudget(last')
        /\ last'.amount = None
        /\ last'.user \in DOMAIN money)
         => /\ last'.result = "ValueError: Amount is required"
            /\ last'.wrote = {}
            /\ money' = money
            /\ budgets' = budgets]_vars

\* a budget creation without an amount has been refused with funds at hand
C16_Witness ==
    /\ IsCreateBudget(last)
    /\ last.amount = None
    /\ last.result = "ValueError: Amount is required"
    /\ money[last.user] > 0
    /\ budgets = <<>>

\* C17: a create_transaction, create_savings, create_weekly_budget,
\* create_monthly_budget, update_budget or close_budget made for one user leaves every
\* other user's money_on_hand, Budgets, Transactions and Savings as they were,
\* however the calls of the two users are interleaved.
C17_UserIsolation ==
    [][last'.op \in {"create_transaction", "create_savings", "create_weekly_budget",
                     "create_monthly_budget", "update_budget", "close_budget"}
         => \A b \in BothUsers \ {last'.user} :
               /\ StoredMoney(money', b) = StoredMoney(money, b)
               /\ UserRows(budgets', b) = UserRows(budgets, b)
               /\ UserRows(transactions', b) = UserRows(transactions, b)
               /\ UserRows(savings', b) = UserRows(savings, b)]_vars

\* u1 has spent 1 while u2 holds a Budget of 1 and the balance that Budget left
C17_Witness ==
    /\ last.op = "create_transaction"
    /\ last.user = "u1"
    /\ last.kind = "expense"
    /\ last.amount = Some(1)
    /\ last.result = "ok"
    /\ "u2" \in DOMAIN money
    /\ Len(UserRows(budgets, "u2")) = 1
    /\ UserRows(budgets, "u2")[1].amount = 1
    /\ money["u2"] = opening["u2"] - 1
    /\ money["u1"] = opening["u1"] - 1

\* C18 as stated: through budget operations alone (create_weekly_budget,
\* create_monthly_budget, update_budget, accepted or rejected, amounts not negative),
\* from a state where available_to_allocate is not negative, available_to_allocate
\* stays not negative.
C18_Headroom ==
    \A u \in DOMAIN money : available_to_allocate(Store, u, money[u]) >= 0

\* C18 as amended: through those budget operations available_to_allocate never falls
\* below minus the sum of the active Budget amounts, that is money_on_hand stays not
\* negative; available_to_allocate itself can become negative.
C18_HeadroomAmended ==
    \A u \in DOMAIN money :
        available_to_allocate(Store, u, money[u]) >= 0 - total_allocated(Store, u)

\* a Budget of 1 accepted against a balance of 1: nothing on hand, 1 reserved
C18_Witness ==
    /\ IsCreateBudget(last)
    /\ last.result = "ok"
    /\ last.amount = Some(1)
    /\ money[last.user] = 0
    /\ total_allocated(Store, last.user) = 1
    /\ available_to_allocate(Store, last.user, money[last.user]) = 0 - 1

\* C19: when money_on_hand is not negative (and no active Budget amount is), a
\* successful allocate_budget or adjust_allocation with amounts that are not negative,
\* called on its own or by a budget creation or update, leaves money_on_hand not
\* negative.
C19_NoOverdraw ==
    [][(/\ last'.op \in {"allocate_budget", "adjust_allocation", "create_weekly_budget",
                         "create_monthly_budget", "update_budget"}
        /\ last'.result = "ok"
        /\ last'.user \in DOMAIN money
        /\ money[last'.user] >= 0
        /\ \A i \in DOMAIN budgets : budgets[i].amount >= 0)
         => money'[last'.user] >= 0]_vars

\* an increase from 0 to 1 accepted against a balance of 1 with nothing reserved
C19_Witness ==
    /\ last.op = "adjust_allocation"
    /\ last.result = "ok"
    /\ last.old = 0
    /\ last.amount = Some(1)
    /\ money[last.user] = 0
    /\ opening[last.user] = 1
    /\ transactions = <<>>
    /\ budgets = <<>>

\* C20: a create_transaction of type expense or savings, and a create_savings, of an
\* amount that is not negative succeeds for a user with a Profile whatever the
\* money_on_hand and the active Budgets, and takes the amount from money_on_hand: a
\* balance below 0 is reached from one that is not.
C20_NeverRejected ==
    [][(/\ \/ last'.op = "create_transaction" /\ last'.kind \in {"expense", "savings"}
           \/ last'.op = "create_savings"
        /\ last'.user \in DOMAIN money)
         => /\ last'.result = "ok"
            /\ money' = [money EXCEPT ![last'.user] = @ - last'.amount[1]]]_vars

\* an expense of 1 accepted with nothing on hand and a Budget of 1 active: the
\* balance opened at 1 is now -1
C20_Witness ==
    /\ last.op = "create_transaction"
    /\ last.kind = "expense"
    /\ last.amount = Some(1)
    /\ last.result = "ok"
    /\ opening[last.user] = 1
    /\ total_allocated(Store, last.user) = 1
    /\ money[last.user] = 0 - 1

\* C21: when an update_budget of a Budget from amount a to b succeeds and the next
\* call is an update_budget of the same Budget back to a that succeeds too,
\* money_on_hand and the Budget's amount are what they were before the first update.
C21_UpdateRoundTrip ==
    [][(/\ last'.op = "update_budget"
        /\ last'.result = "ok"
        /\ last'.undoes # None)
         => /\ last.op = "update_budget" /\ last.result = "ok"
            /\ money'[last'.user] = last.before[1]
            /\ budgets'[last'.budget].amount = last.old
            /\ budgets'[last'.budget] = [budgets[last'.budget] EXCEPT !.amount = last.old]]_vars

\* an active Budget of 0 raised to 1 and set back to 0: the balance is the opening one
C21_Witness ==
    /\ last.op = "update_budget"
    /\ last.result = "ok"
    /\ last.undoes # None
    /\ last.old = 1
    /\ last.amount = Some(0)
    /\ budgets[last.budget].is_active
    /\ budgets[last.budget].amount = 0
    /\ last.undoes = Some(money[last.user])
    /\ last.before = Some(money[last.user] - 1)

\* C22: when a create_weekly_budget, create_monthly_budget or update_budget fails
\* after MoneyEngine has written the balance, the money_on_hand of the in-memory
\* Profile of the caller's user equals the stored money_on_hand after the rollback.
C22_InMemoryAfterRollback ==
    [][(/\ IsCreateBudget(last') \/ last'.op = "update_budget"
        /\ last'.result # "ok"
        /\ last'.wrote # {})
         => last'.mem = Some(money'[last'.user])]_vars

\* C23: an update_budget of a Budget that close_budget has made inactive does not
\* change money_on_hand.
C23_ClosedBudgetNoReservation ==
    [][(/\ last'.op = "update_budget"
        /\ last'.budget \in DOMAIN budgets
        /\ ~budgets[last'.budget].is_active)
         => money' = money]_vars

====
